---- MODULE Spec2Model ----
(***************************************************************************)
(* Model of notion_slack_reminder.py: the reminder run (main), the mention *)
(* builder (build_mentions) and the helpers they call.                     *)
(*                                                                         *)
(* Strings are sequences of one-character tokens, so that strip(), len(),  *)
(* startswith() and normalize_name() are computed and not assumed.         *)
(* The tokens "FW", "TAB" and "NL" stand for U+3000, \t and \n.            *)
(* Python's None and "" are both the empty sequence: the code only ever    *)
(* tests them for truthiness.                                              *)
(***************************************************************************)
EXTENDS Integers, Sequences, FiniteSets, TLC

\* ---------------------------------------------------------------- bounds
MaxPages == 2
MaxUsers == 2

\* ------------------------------------------------------- string helpers
Truthy(s) == s # <<>>

WS == {" ", "FW", "TAB", "NL"}

Lower(c) == IF c = "A" THEN "a" ELSE IF c = "B" THEN "b" ELSE c

RECURSIVE LStrip(_)
LStrip(s) == IF s = <<>> THEN <<>>
             ELSE IF Head(s) \in WS THEN LStrip(Tail(s)) ELSE s

RECURSIVE RStrip(_)
RStrip(s) == IF s = <<>> THEN <<>>
             ELSE IF s[Len(s)] \in WS THEN RStrip(SubSeq(s, 1, Len(s) - 1)) ELSE s

\* str.strip()
Strip(s) == RStrip(LStrip(s))

IsNotWS(c) == c \notin WS

normalize_name(s) ==
    IF ~Truthy(s) THEN <<>>
    ELSE LET kept == SelectSeq(s, IsNotWS)
         IN  [k \in 1..Len(kept) |-> Lower(kept[k])]

Contains(seq, x) == \E k \in 1..Len(seq) : seq[k] = x

\* SEP.join(parts); the token "SEP" stands for the separator U+3001
RECURSIVE Join(_)
Join(parts) == IF parts = <<>> THEN <<>>
               ELSE IF Len(parts) = 1 THEN parts[1]
               ELSE parts[1] \o <<"SEP">> \o Join(Tail(parts))

\* the "unassigned" label of build_mentions, one token
PLACEHOLDER == <<"UNSET">>

\* ------------------------------------------------------------ test data
Uid(c) == <<"U", "0", "0", "0", "0", "0", "0", c>>
UA == Uid("1")
UB == Uid("2")
UC == Uid("3")
U123 == <<"U", "1", "2", "3">>

E1 == <<"e", "1">>
E2 == <<"e", "2">>
URLX == <<"x">>
URLY == <<"y">>

Person(n, e) == [name |-> n, email |-> e]

PeopleLists ==
    { <<>>,
      << Person(<<"a">>, <<>>) >>,
      << Person(<<"A", " ">>, E1) >>,
      << Person(<<" ">>, <<>>) >>,
      << Person(<<>>, <<>>) >>,
      << Person(<<>>, E1) >>,
      << Person(<<"a">>, <<>>), Person(<<>>, <<>>) >>,
      << Person(<<"a">>, E1), Person(<<"b">>, E2) >>,
      << Person(<<"b">>, E1), Person(<<"FW", "a">>, E2) >>,
      << Person(<<"NL">>, E1), Person(<<"a", "TAB">>, <<>>) >> }

NoColumn == [present |-> FALSE, rich_text |-> <<>>]
Column(texts) == [present |-> TRUE, rich_text |-> texts]

SlackIdColumns ==
    { NoColumn,
      Column(<< U123 >>),
      Column(<< <<" ">> \o UC \o <<"NL">>, UC, UA >>),
      Column(<< <<"X", "0", "0", "0", "0", "0", "0", "1">>, UB, UB \o <<"9">> >>) }

PeopleField(ppl) == [type |-> "people", people |-> ppl, rich_text |-> <<>>]
TextField(txt) == [type |-> "rich_text", people |-> <<>>, rich_text |-> txt]
AbsentField == [type |-> "absent", people |-> <<>>, rich_text |-> <<>>]

Page(f, c) == [assignee |-> f, slackid |-> c]

Records ==
    { Page(PeopleField(ppl), c) : ppl \in PeopleLists, c \in SlackIdColumns }
    \cup { Page(TextField(<< <<"a">> >>), c) : c \in {NoColumn, Column(<< U123 >>)} }
    \cup { Page(TextField(<<>>), Column(<< UB, UB >>)) }
    \cup { Page(AbsentField, c) : c \in SlackIdColumns }

\* records that follow the first one in a query result
TailRecords ==
    { Page(PeopleField(<< Person(<<"a">>, <<>>) >>), NoColumn),
      Page(AbsentField, Column(<< UB >>)) }

RECURSIVE SeqsUpTo(_, _)
SeqsUpTo(S, n) ==
    IF n = 0 THEN { <<>> }
    ELSE LET shorter == SeqsUpTo(S, n - 1)
         IN  shorter \cup { Append(s, x) : s \in { t \in shorter : Len(t) = n - 1 }, x \in S }

QueryResults ==
    { <<>> } \cup
    { <<r>> \o rest : r \in Records, rest \in SeqsUpTo(TailRecords, MaxPages - 1) }

User(id, rn, dn) == [id |-> id, real_name |-> rn, display_name |-> dn]

Members ==
    { User(UA, <<"A">>, <<"a", " ", "a">>),
      User(UB, <<"b">>, <<>>),
      User(UC, <<"a", "FW">>, <<"B">>),
      User(UB, <<" ">>, <<"a", "a">>) }

Directories == SeqsUpTo(Members, MaxUsers)

Entry(n, u) == [name |-> n, url |-> u]

UrlMaps ==
    { <<>>,
      << Entry(<<" ">>, URLX) >>,
      << Entry(<<"A">>, URLX), Entry(<<"b">>, URLY), Entry(<<"a", " ">>, URLX) >>,
      << Entry(<<"a">>, <<>>), Entry(<<"B">>, URLY) >> }


\* ------------------------------------------------------ pure functions
extract_people_drop(page) ==
    IF page.assignee.type = "people"
    THEN LET all == [k \in 1..Len(page.assignee.people) |->
                       <<page.assignee.people[k].name, page.assignee.people[k].email>>]
             Kept(r) == Truthy(r[1]) \/ Truthy(r[2])
         IN  SelectSeq(all, Kept)
    ELSE <<>>

\* page["properties"][prop]["people"]: any other shape raises KeyError -> []
extract_people(page) ==
    IF page.assignee.type = "people"
    THEN [k \in 1..Len(page.assignee.people) |->
            <<page.assignee.people[k].name, page.assignee.people[k].email>>]
    ELSE <<>>

IsSlackId_nolen(text) == Len(text) >= 1 /\ text[1] = "U"

IsSlackId(text) == Len(text) >= 1 /\ text[1] = "U" /\ Len(text) >= 8

extract_slackid_fallback(page) ==
    IF page.slackid.present
    THEN LET stripped == [k \in 1..Len(page.slackid.rich_text) |->
                            Strip(page.slackid.rich_text[k])]
         IN  SelectSeq(stripped, IsSlackId)
    ELSE <<>>

EmptyIndex == [k \in {} |-> <<>>]

IndexPut_overwrite(idx, key, uid) ==
    IF Truthy(key) THEN (key :> uid) @@ idx ELSE idx

\* if key and key not in idx: idx[key] = uid
IndexPut(idx, key, uid) ==
    IF Truthy(key) /\ key \notin DOMAIN idx THEN idx @@ (key :> uid) ELSE idx

RECURSIVE IndexUsers(_, _)
IndexUsers(idx, users) ==
    IF users = <<>> THEN idx
    ELSE LET u == Head(users)
             idx1 == IndexPut(idx, normalize_name(u.real_name), u.id)
             idx2 == IndexPut(idx1, normalize_name(u.display_name), u.id)
         IN  IndexUsers(idx2, Tail(users))

build_name_index(users) == IndexUsers(EmptyIndex, users)

\* name_index.get(key)
IndexGet(idx, key) == IF key \in DOMAIN idx THEN idx[key] ELSE <<>>

\* the loop over PERSON_URL_MAP.items() for one ref
RECURSIVE MatchUrls(_, _, _)
MatchUrls(matched, key, map) ==
    IF map = <<>> THEN matched
    ELSE LET e == Head(map)
             hit == normalize_name(e.name) = key /\ Truthy(e.url)
                    /\ ~Contains(matched, e.url)
         IN  MatchUrls(IF hit THEN Append(matched, e.url) ELSE matched, key, Tail(map))

Fresh_always(uid, seenset) == TRUE

\* uid not in seen
Fresh(uid, seenset) == uid \notin seenset

\* the guard of the URL match of one ref
UrlGuard(name, key) == Truthy(name)

\* name or email or placeholder
DisplayOf(name, email) ==
    IF Truthy(name) THEN name ELSE IF Truthy(email) THEN email ELSE PLACEHOLDER

\* SEP.join([n for n in display_names if n]) or placeholder
LabelOf(names) ==
    LET joined == Join(SelectSeq(names, Truthy))
    IN  IF Truthy(joined) THEN joined ELSE PLACEHOLDER

\* ---------------------------------------------------------------- state
VARIABLES pc, PERSON_URL_MAP, pages, user_dir, name_index, p,
          assigned, fallback_ids, display_names, mention_ids, seen,
          matched_urls, j, lookups, ret, chosen_url,
          writes, posts, log, stdout, failure

vars == <<pc, PERSON_URL_MAP, pages, user_dir, name_index, p,
          assigned, fallback_ids, display_names, mention_ids, seen,
          matched_urls, j, lookups, ret, chosen_url,
          writes, posts, log, stdout, failure>>

env == <<PERSON_URL_MAP, pages, user_dir, name_index, p>>
locals == <<assigned, fallback_ids, display_names, mention_ids, seen, matched_urls, j, lookups>>
effects == <<writes, posts, stdout>>

NoRet == [set |-> FALSE, label |-> <<>>, ids |-> <<>>, urls |-> <<>>]

Init ==
    /\ pc = "query"
    /\ PERSON_URL_MAP \in UrlMaps
    /\ pages = <<>>
    /\ user_dir = <<>>
    /\ name_index = EmptyIndex
    /\ p = 0
    /\ assigned = <<>>
    /\ fallback_ids = <<>>
    /\ display_names = <<>>
    /\ mention_ids = <<>>
    /\ seen = {}
    /\ matched_urls = <<>>
    /\ j = 0
    /\ lookups = <<>>
    /\ ret = NoRet
    /\ chosen_url = <<>>
    /\ writes = <<>>
    /\ posts = <<>>
    /\ log = <<>>
    /\ stdout = <<>>
    /\ failure = "none"

\* except Exception as e: logging.error(...); raise e
Raise(tag, which) ==
    /\ pc' = "aborted"
    /\ failure' = which
    /\ log' = log \o tag \o <<"error">>

\* notion_query_today and the empty check
Query ==
    /\ pc = "query"
    /\ \/ /\ Raise(<<"run">>, "query")
          /\ UNCHANGED <<env, locals, ret, chosen_url, effects>>
       \/ \E ps \in QueryResults :
            /\ pages' = ps
            /\ IF ps = <<>>
               THEN /\ pc' = "done"
                    /\ log' = log \o <<"run", "no_reminders">>
               ELSE /\ pc' = "fetch"
                    /\ log' = Append(log, "run")
            /\ UNCHANGED <<PERSON_URL_MAP, user_dir, name_index, p, locals, ret,
                           chosen_url, effects, failure>>

\* slack_fetch_user_directory and build_name_index
FetchDirectory ==
    /\ pc = "fetch"
    /\ \/ /\ Raise(<<>>, "fetch")
          /\ UNCHANGED <<env, locals, ret, chosen_url, effects>>
       \/ \E users \in Directories :
            /\ user_dir' = users
            /\ name_index' = build_name_index(users)
            /\ p' = 1
            /\ pc' = "record"
            /\ UNCHANGED <<PERSON_URL_MAP, pages, locals, ret, chosen_url, effects,
                           log, failure>>

\* the head of the loop body and the head of build_mentions
BeginRecord ==
    /\ pc = "record"
    /\ assigned' = extract_people(pages[p])
    /\ fallback_ids' = extract_slackid_fallback(pages[p])
    /\ display_names' = <<>>
    /\ mention_ids' = <<>>
    /\ seen' = {}
    /\ matched_urls' = <<>>
    /\ lookups' = <<>>
    /\ j' = 1
    /\ ret' = NoRet
    /\ chosen_url' = <<>>
    /\ pc' = "name_pass"
    /\ UNCHANGED <<env, effects, log, failure>>

\* one iteration of the name loop
NameStep ==
    /\ pc = "name_pass"
    /\ j <= Len(assigned)
    /\ LET name == assigned[j][1]
           email == assigned[j][2]
           key == normalize_name(name)
           uid == IndexGet(name_index, key)
       IN  /\ display_names' = Append(display_names, DisplayOf(name, email))
           /\ IF Truthy(uid) /\ Fresh(uid, seen)
              THEN /\ mention_ids' = Append(mention_ids, uid)
                   /\ seen' = seen \cup {uid}
              ELSE UNCHANGED <<mention_ids, seen>>
           /\ matched_urls' = IF UrlGuard(name, key)
                              THEN MatchUrls(matched_urls, key, PERSON_URL_MAP)
                              ELSE matched_urls
    /\ j' = j + 1
    /\ UNCHANGED <<pc, env, assigned, fallback_ids, lookups, ret, chosen_url,
                   effects, log, failure>>

NameDone ==
    /\ pc = "name_pass"
    /\ j > Len(assigned)
    /\ pc' = "email_pass"
    /\ j' = 1
    /\ UNCHANGED <<env, assigned, fallback_ids, display_names, mention_ids, seen,
                   matched_urls, lookups, ret, chosen_url, effects, log, failure>>


\* the ids users.lookupByEmail may answer with
LookupIds == {UA, UC}

\* one iteration of the email loop; slack_lookup_user_id_by_email either
\* raises (requests.get / res.json() fail), answers ok=false (None) or an id
EmailStep ==
    /\ pc = "email_pass"
    /\ j <= Len(assigned)
    /\ LET email == assigned[j][2]
       IN  IF ~Truthy(email)
           THEN /\ j' = j + 1
                /\ UNCHANGED <<pc, mention_ids, seen, lookups, log, failure>>
           ELSE \/ /\ Raise(<<>>, "lookup")
                   /\ UNCHANGED <<j, mention_ids, seen, lookups>>
                \/ \E uid \in LookupIds \cup {<<>>} :
                     /\ lookups' = Append(lookups, uid)
                     /\ IF Truthy(uid) /\ Fresh(uid, seen)
                        THEN /\ mention_ids' = Append(mention_ids, uid)
                             /\ seen' = seen \cup {uid}
                        ELSE UNCHANGED <<mention_ids, seen>>
                     /\ j' = j + 1
                     /\ UNCHANGED <<pc, log, failure>>
    /\ UNCHANGED <<env, assigned, fallback_ids, display_names, matched_urls, ret,
                   chosen_url, effects>>

EmailDone ==
    /\ pc = "email_pass"
    /\ j > Len(assigned)
    /\ pc' = "fallback_pass"
    /\ j' = 1
    /\ UNCHANGED <<env, assigned, fallback_ids, display_names, mention_ids, seen,
                   matched_urls, lookups, ret, chosen_url, effects, log, failure>>

\* one iteration of the SlackID column loop
FallbackStep ==
    /\ pc = "fallback_pass"
    /\ j <= Len(fallback_ids)
    /\ LET uid == fallback_ids[j]
       IN  IF Fresh(uid, seen)
           THEN /\ mention_ids' = Append(mention_ids, uid)
                /\ seen' = seen \cup {uid}
           ELSE UNCHANGED <<mention_ids, seen>>
    /\ j' = j + 1
    /\ UNCHANGED <<pc, env, assigned, fallback_ids, display_names, matched_urls,
                   lookups, ret, chosen_url, effects, log, failure>>

AfterBuild_skip(chosen) == "post"

\* where main goes once chosen_url is known: the write-back comes first
AfterBuild(chosen) == IF Truthy(chosen) THEN "writeback" ELSE "post"

\* the return of build_mentions, and main's choice of chosen_url
Return ==
    /\ pc = "fallback_pass"
    /\ j > Len(fallback_ids)
    /\ ret' = [set |-> TRUE, label |-> LabelOf(display_names),
               ids |-> mention_ids, urls |-> matched_urls]
    /\ chosen_url' = IF matched_urls # <<>> THEN matched_urls[1] ELSE <<>>
    /\ pc' = AfterBuild(chosen_url')
    /\ UNCHANGED <<env, locals, effects, log, failure>>

\* update_notion_url_property and the log line after it
UpdateUrl ==
    /\ pc = "writeback"
    /\ IF ~Truthy(chosen_url)
       THEN /\ pc' = "post"
            /\ log' = Append(log, "url_updated")
            /\ UNCHANGED <<writes, stdout, failure>>
       ELSE \/ /\ writes' = Append(writes, [page |-> p, url |-> chosen_url, outcome |-> "raised"])
               /\ Raise(<<>>, "update")
               /\ UNCHANGED stdout
            \/ \E ok \in BOOLEAN :
                 /\ writes' = Append(writes, [page |-> p, url |-> chosen_url,
                                              outcome |-> IF ok THEN "ok" ELSE "rejected"])
                 /\ stdout' = IF ok THEN stdout ELSE Append(stdout, "WARN")
                 /\ log' = Append(log, "url_updated")
                 /\ pc' = "post"
                 /\ UNCHANGED failure
    /\ UNCHANGED <<env, locals, ret, chosen_url, posts>>

\* where main goes after a dispatch that succeeded: the print and the
\* return that follow time.sleep(1) are inside the loop body
AfterPost(page, n) == "done"

\* slack_post, the log line, the sleep and what follows it in the loop body
Post ==
    /\ pc = "post"
    /\ \/ /\ posts' = Append(posts, [page |-> p, ok |-> FALSE])
          /\ Raise(<<>>, "post")
          /\ UNCHANGED stdout
       \/ /\ posts' = Append(posts, [page |-> p, ok |-> TRUE])
          /\ log' = Append(log, "sent")
          /\ stdout' = Append(stdout, "no_reminders")
          /\ pc' = AfterPost(p, Len(pages))
          /\ UNCHANGED failure
    /\ UNCHANGED <<env, locals, ret, chosen_url, writes>>

Next ==
    \/ Query
    \/ FetchDirectory
    \/ BeginRecord
    \/ NameStep
    \/ NameDone
    \/ EmailStep
    \/ EmailDone
    \/ FallbackStep
    \/ Return
    \/ UpdateUrl
    \/ Post

Spec == Init /\ [][Next]_vars

TypeOK ==
    /\ pc \in {"query", "fetch", "record", "name_pass", "email_pass",
               "fallback_pass", "writeback", "post", "done", "aborted"}
    /\ failure \in {"none", "query", "fetch", "lookup", "update", "post"}


\* ------------------------------------------------------------ properties
InBuild == pc \in {"name_pass", "email_pass", "fallback_pass"}

\* the elements of s from position k on, each kept at its first occurrence in s
RECURSIVE KeepFirst(_, _)
KeepFirst(s, k) ==
    IF k > Len(s) THEN <<>>
    ELSE (IF \E m \in 1..(k - 1) : s[m] = s[k] THEN <<>> ELSE <<s[k]>>)
         \o KeepFirst(s, k + 1)

Dispatched(k) == \E i \in 1..Len(posts) : posts[i].page = k

\* C1: a run whose query returned N >= 1 records never ends normally while a
\* due record has had no dispatch attempt; an aborted run has logged the
\* failure and has dispatched only a prefix of the records.
C1_Claim ==
    Len(pages) >= 1 =>
        /\ pc = "done" => \A k \in 1..Len(pages) : Dispatched(k)
        /\ pc = "aborted" =>
              /\ log[Len(log)] = "error"
              /\ \A k \in 1..Len(pages) :
                    Dispatched(k) => \A m \in 1..k : Dispatched(m)

\* the ids the directory index gives for the names of the first n refs
NameHits(n) ==
    LET hit(k) == IndexGet(name_index, normalize_name(assigned[k][1]))
        all == [k \in 1..n |-> hit(k)]
    IN  SelectSeq(all, Truthy)

\* C2: mentionIds holds no id twice and is ordered by first discovery: the
\* ids of the name pass, then those first found by the email pass, then those
\* first found by the fallback pass; no lookup is made before the name pass
\* is over, and what build_mentions returns is that list.
C2_Theorem ==
    LET nn == IF pc = "name_pass" THEN j - 1 ELSE Len(assigned)
        nf == IF pc = "fallback_pass" THEN j - 1 ELSE Len(fallback_ids)
        found == NameHits(nn) \o SelectSeq(lookups, Truthy)
                 \o (IF InBuild /\ pc # "fallback_pass"
                     THEN <<>> ELSE SubSeq(fallback_ids, 1, nf))
    IN  /\ (InBuild \/ ret.set) =>
              /\ mention_ids = KeepFirst(found, 1)
              /\ \A a, b \in 1..Len(mention_ids) :
                    mention_ids[a] = mention_ids[b] => a = b
        /\ pc = "name_pass" => lookups = <<>>
        /\ ret.set => ret.ids = mention_ids

C2_Witness ==
    /\ ret.set
    /\ lookups = <<UA, UC>>
    /\ fallback_ids = <<UC, UC, UA>>
    /\ ret.ids = <<UA, UB, UC>>

\* C3: a failed email lookup never aborts the run.
C3_Claim == ~(pc = "aborted" /\ failure = "lookup")

EmptyAssignee(page) ==
    \/ page.assignee.type = "absent"
    \/ page.assignee.type = "people" /\ page.assignee.people = <<>>
    \/ page.assignee.type = "rich_text" /\ page.assignee.rich_text = <<>>

NonEmptyColumn(page) == page.slackid.present /\ page.slackid.rich_text # <<>>

\* C4 as stated: with an empty assignee field and a non-empty fallback
\* column the result is the placeholder label, no url, and every text of the
\* column that is not already present, in column order.
C4_Claim ==
    (ret.set /\ EmptyAssignee(pages[p]) /\ NonEmptyColumn(pages[p])) =>
        /\ ret.label = PLACEHOLDER
        /\ ret.urls = <<>>
        /\ ret.ids = KeepFirst(pages[p].slackid.rich_text, 1)

C4_Accepted(text) == Head(text) = "U" /\ Len(text) >= 8

C4_Valid(texts) ==
    LET stripped == [k \in 1..Len(texts) |-> Strip(texts[k])]
        nonempty == SelectSeq(stripped, Truthy)
    IN  SelectSeq(nonempty, C4_Accepted)

\* C4 as amended: with an empty assignee field and a non-empty fallback
\* column the result is the placeholder label, no url, and, in column order
\* and each once, the column's texts that after stripping start with "U" and
\* have at least 8 characters; the column ["U123"] yields no mention id.
C4_Theorem ==
    (ret.set /\ EmptyAssignee(pages[p]) /\ NonEmptyColumn(pages[p])) =>
        /\ ret.label = PLACEHOLDER
        /\ ret.urls = <<>>
        /\ ret.ids = KeepFirst(C4_Valid(pages[p].slackid.rich_text), 1)

C4_Witness ==
    /\ ret.set
    /\ EmptyAssignee(pages[p])
    /\ pages[p].slackid = Column(<< U123 >>)
    /\ ret.ids = <<>>
    /\ ret.label = PLACEHOLDER

\* C5: a free-text assignee field holding one name, a directory user whose
\* real name normalizes to it and no URL map entry for it give label = the
\* name, mentionIds = [that user's id], urls = [] and no write-back.
C5_Claim ==
    (/\ ret.set
     /\ pages[p].assignee.type = "rich_text"
     /\ Len(pages[p].assignee.rich_text) = 1
     /\ ~pages[p].slackid.present
     /\ \A e \in 1..Len(PERSON_URL_MAP) :
           normalize_name(PERSON_URL_MAP[e].name)
              # normalize_name(pages[p].assignee.rich_text[1]))
    => \A u \in 1..Len(user_dir) :
          (/\ normalize_name(user_dir[u].real_name)
                 = normalize_name(pages[p].assignee.rich_text[1])
           /\ \A v \in 1..(u - 1) :
                 normalize_name(pages[p].assignee.rich_text[1])
                    \notin {normalize_name(user_dir[v].real_name),
                            normalize_name(user_dir[v].display_name)})
          => /\ ret.label = pages[p].assignee.rich_text[1]
             /\ ret.ids = << user_dir[u].id >>
             /\ ret.urls = <<>>
             /\ writes = <<>>

HasNameOrEmail(person) == Truthy(person.name) \/ Truthy(person.email)

PairOf(person) == <<person.name, person.email>>

\* C6 as stated: the refs of a person-object field are the pairs of the
\* entries that carry a name or an email, in list order.
C6_Claim ==
    ((InBuild \/ ret.set) /\ pages[p].assignee.type = "people") =>
        LET kept == SelectSeq(pages[p].assignee.people, HasNameOrEmail)
        IN  assigned = [k \in 1..Len(kept) |-> PairOf(kept[k])]

C6_Part(person) ==
    IF person.name # <<>> THEN person.name
    ELSE IF person.email # <<>> THEN person.email
    ELSE PLACEHOLDER

\* C6 as amended: the refs of a person-object field are the (name, email)
\* pairs of all its entries, in list order; an entry with neither name nor
\* email is kept and contributes the placeholder to the label.
C6_Theorem ==
    ((InBuild \/ ret.set) /\ pages[p].assignee.type = "people") =>
        LET ppl == pages[p].assignee.people
        IN  /\ Len(assigned) = Len(ppl)
            /\ \A k \in 1..Len(ppl) : assigned[k] = PairOf(ppl[k])
            /\ (ret.set /\ ppl # <<>>) =>
                  ret.label = Join([k \in 1..Len(ppl) |-> C6_Part(ppl[k])])

C6_Witness ==
    /\ ret.set
    /\ pages[p].assignee.type = "people"
    /\ pages[p].assignee.people = << Person(<<"a">>, <<>>), Person(<<>>, <<>>) >>
    /\ Len(assigned) = 2
    /\ ret.label = <<"a", "SEP", "UNSET">>

WrittenBack(k) == \E w \in 1..Len(writes) : writes[w].page = k

\* C7: a write-back is attempted exactly when urls is non-empty, with
\* urls[0]; no failure of the write-back aborts the run, and the record's
\* notification is still dispatched.
C7_Claim ==
    /\ ~(pc = "aborted" /\ failure = "update")
    /\ (ret.set /\ pc \in {"post", "done"}) =>
          /\ WrittenBack(p) <=> ret.urls # <<>>
          /\ \A w \in 1..Len(writes) : writes[w].url = ret.urls[1]
    /\ \A w \in 1..Len(writes) :
          (writes[w].outcome # "ok" /\ pc = "done") => Dispatched(writes[w].page)

\* C8: the name pass adds no mention id and no url for a ref whose name
\* normalizes to the empty key.
C8_Claim ==
    [][(pc = "name_pass" /\ j <= Len(assigned)
        /\ normalize_name(assigned[j][1]) = <<>>)
       => (mention_ids' = mention_ids /\ matched_urls' = matched_urls)]_vars

IndexBuilt == pc \notin {"query", "fetch"} /\ p >= 1

KeysOf(user) == {normalize_name(user.real_name), normalize_name(user.display_name)}

\* C9: the index holds exactly the non-empty normalized candidate names of
\* the snapshot, each mapped to the id of the first entry that has it.
C9_Theorem ==
    IndexBuilt =>
        /\ DOMAIN name_index
              = UNION {KeysOf(user_dir[k]) : k \in 1..Len(user_dir)} \ {<<>>}
        /\ \A key \in DOMAIN name_index :
              \E k \in 1..Len(user_dir) :
                 /\ key \in KeysOf(user_dir[k])
                 /\ \A m \in 1..(k - 1) : key \notin KeysOf(user_dir[m])
                 /\ name_index[key] = user_dir[k].id

C9_Witness ==
    /\ IndexBuilt
    /\ \E a, b \in 1..Len(user_dir) :
          /\ a < b
          /\ user_dir[a].id # user_dir[b].id
          /\ \E key \in KeysOf(user_dir[a]) \cap KeysOf(user_dir[b]) :
                key # <<>> /\ name_index[key] = user_dir[a].id
          /\ <<>> \in KeysOf(user_dir[b])

\* C10: no dispatch of a record with a non-empty urls list is attempted
\* before the write-back of urls[0] to that record has been attempted.
C10_Theorem ==
    \A i \in 1..Len(posts) :
        (posts[i].page = p /\ ret.urls # <<>>) =>
            \E w \in 1..Len(writes) :
                writes[w].page = p /\ writes[w].url = ret.urls[1]

\* written back, dispatch failed fatally, the write stays
C10_Witness ==
    /\ pc = "aborted"
    /\ failure = "post"
    /\ \E w \in 1..Len(writes) : writes[w].page = p /\ writes[w].outcome = "ok"
    /\ \A i \in 1..Len(posts) : ~posts[i].ok

====
